---- MODULE Spec2Model ----
(***************************************************************************)
(* Model of python/examples/replay_mission/replay_mission.py: the mission  *)
(* replay client.  One sequential process (main) that acquires the body    *)
(* lease, uploads map and mission, checks estop and power, stands, runs or *)
(* repeats the mission and finally powers off and returns the lease.  Each *)
(* remote call of the script is one action; a remote call either returns   *)
(* or raises a fault.  The remote services (lease, graph-nav, mission,     *)
(* estop, power) are the environment: their answers are drawn from small   *)
(* sets at the call.                                                       *)
(***************************************************************************)
EXTENDS Integers, Sequences, FiniteSets, TLC

-----------------------------------------------------------------------------
(* Bounds of the model *)

\* lease revisions the wallet may hand out in one run (advance is disabled beyond)
MaxRev == 12
\* pending operator questions a poll may report
MaxQuestions == 1
\* waypoints (each with one snapshot) in the graph file
MaxWaypoints == 1
\* edges (each with one snapshot) in the graph file
MaxEdges == 1

(* Program constants *)

\* time.sleep(1) after play_mission and after restart_mission
PollSleep == 1
\* countdown(5) after the stand command
StandCountdown == 5

\* values of --time tried (0.0, the default, means run once)
Durations == {0, 2, 10}

\* mission_pb2.State statuses
Active == {"NONE", "RUNNING"}
Statuses == {"NONE", "RUNNING", "SUCCESS", "FAILURE", "PAUSED", "ERROR"}
Unset == "UNSET"

\* a call that presents no lease of its own
NoLease == -1

\* remote calls that change robot / map / mission state
UploadKinds == {"upload_graph", "upload_waypoint_snapshot", "upload_edge_snapshot",
                "load_mission"}
MissionKinds == {"play_mission", "restart_mission"}
MutatingKinds == UploadKinds \cup MissionKinds \cup {"stand"}

-----------------------------------------------------------------------------
VARIABLES
    \* command line (argparse result)
    map_given,          \* --map_directory supplied
    mission_file,       \* args.mission_file is set (--mission, or the default of line 71)
    static_mode,        \* --static
    duration,           \* --time
    mission_exists,     \* the file args.mission_file names exists (files do not change
                        \* during the run)
    do_map_load,        \* main line 65
    fail_on_question,   \* main line 66
    \* control
    pc,                 \* position of main (and of the function it is in)
    exc,                \* exception in flight / that ended the process ("none" if none)
    fatal,              \* why the run was refused or the try block was left ("none" if not)
    now,                \* time.time(): whole seconds slept since process start
    \* lease
    body_lease,         \* main's body_lease: revision acquired (NoLease before acquire)
    walletRev,          \* lease_client.lease_wallet: latest revision held
    nReturn,            \* number of return_lease calls issued
    \* upload_graph_and_snapshots locals
    n_wp, n_edge,       \* len(current_waypoint_snapshots), len(current_edge_snapshots)
    wp_i, edge_i,       \* snapshots uploaded so far by each loop
    \* robot
    powered,            \* what robot.is_powered_on() reports
    power_off_success,  \* main's local: "unset", "true", "false"
    \* run_mission
    mission_state,      \* last get_state() result: [status, questions]
    rm_lease,           \* run_mission / restart_mission local body_lease
    rm_result,          \* value run_mission returned last
    rm_caller,          \* "main", "first" (repeat line 313) or "loop" (repeat line 324)
    \* repeat_mission
    start_time, elapsed_time, mission_success,
    rp_returned,        \* repeat_mission returned normally
    rp_result,          \* the value it returned
    \* history of the run
    lastCall,           \* the last remote call issued
    calls,              \* kinds of remote calls issued so far
    prevOp,             \* kind of the last lease / remote operation
    lastMissionLease,   \* revision carried by the last play / restart call
    nPlays, nRestarts, nGetState, nRuns, nRunsReturned,
    everyIter4,         \* every repeat iteration so far took 4 s and succeeded
    rm_plays,           \* play_mission calls issued by the current run_mission
    rs_result           \* value restart_mission just returned (FALSE once it is dropped)

argsV   == <<map_given, mission_file, static_mode, duration, mission_exists>>
flagsV  == <<do_map_load, fail_on_question>>
leaseV  == <<body_lease, walletRev, nReturn>>
uploadV == <<n_wp, n_edge, wp_i, edge_i>>
robotV  == <<powered, power_off_success>>
runV    == <<mission_state, rm_lease, rm_result, rm_caller>>
repeatV == <<start_time, elapsed_time, mission_success, rp_returned, rp_result>>
callV   == <<lastCall, calls, prevOp, lastMissionLease>>
countV  == <<nPlays, nRestarts, nGetState, nRuns, nRunsReturned, everyIter4,
             rm_plays, rs_result>>

vars == <<argsV, flagsV, pc, exc, fatal, now, leaseV, uploadV, robotV, runV, repeatV,
          callV, countV>>

\* run_mission's mission_state before its first poll and after its frame is gone
NoState == [status |-> Unset, questions |-> 0]

NoCall == [kind |-> "none", lease |-> NoLease, wallet |-> NoLease, fresh |-> FALSE,
           prevMission |-> NoLease]

\* A remote call of kind k presenting lease l is issued.
Issue(k, l) ==
    /\ lastCall' = [kind |-> k, lease |-> l, wallet |-> walletRev,
                    fresh |-> (prevOp = "advance"), prevMission |-> lastMissionLease]
    /\ calls' = calls \cup {k}
    /\ prevOp' = k
    /\ lastMissionLease' = IF k \in MissionKinds THEN l ELSE lastMissionLease

\* An exception e leaves the try block of main, for the reason why: control passes to
\* the finally clause.
Raise(e, why) == /\ exc' = e
                 /\ fatal' = why
                 /\ pc' = "off_check"

Init ==
    /\ map_given \in BOOLEAN
    /\ mission_file \in BOOLEAN
    /\ static_mode \in BOOLEAN
    /\ duration \in Durations
    /\ static_mode => duration = 0          \* --time and --static are mutually exclusive
    /\ mission_exists \in BOOLEAN
    /\ do_map_load = FALSE
    /\ fail_on_question = FALSE
    /\ pc = "parse"
    /\ exc = "none"
    /\ fatal = "none"
    /\ now = 0
    /\ body_lease = NoLease
    /\ walletRev = NoLease
    /\ nReturn = 0
    /\ n_wp = 0 /\ n_edge = 0 /\ wp_i = 0 /\ edge_i = 0
    /\ powered \in BOOLEAN
    /\ power_off_success = "unset"
    /\ mission_state = NoState
    /\ rm_lease = NoLease
    /\ rm_result = FALSE
    /\ rm_caller = "main"
    /\ start_time = 0 /\ elapsed_time = 0 /\ mission_success = FALSE
    /\ rp_returned = FALSE /\ rp_result = FALSE
    /\ lastCall = NoCall
    /\ calls = {}
    /\ prevOp = "none"
    /\ lastMissionLease = NoLease
    /\ nPlays = 0 /\ nRestarts = 0 /\ nGetState = 0 /\ nRuns = 0 /\ nRunsReturned = 0
    /\ everyIter4 = TRUE
    /\ rm_plays = 0
    /\ rs_result = FALSE

-----------------------------------------------------------------------------
(* main: argument handling, connect, acquire *)

\* (mutant) questions fail the mission whether or not a map directory was given
FailOnQuestion_Always(mapGiven) == TRUE

\* main lines 65-66
DoMapLoad(mapGiven) == mapGiven
FailOnQuestion(mapGiven) == mapGiven

ParseArgs ==
    /\ pc = "parse"
    /\ do_map_load' = DoMapLoad(map_given)
    /\ fail_on_question' = FailOnQuestion(map_given)
    /\ IF ~mission_file /\ ~map_given
         THEN /\ exc' = "Exception"         \* raised before any lease is requested
              /\ fatal' = "missing_args"
              /\ pc' = "done"
              /\ mission_file' = mission_file
         ELSE /\ exc' = exc /\ fatal' = fatal
              /\ pc' = "init_robot"
              /\ mission_file' = TRUE     \* line 71: <map_directory>/missions/autogenerated
    /\ UNCHANGED <<map_given, static_mode, duration, mission_exists, now, leaseV, uploadV,
                   robotV, runV, repeatV, callV, countV>>

InitRobot ==
    /\ pc = "init_robot"
    /\ \E ok \in BOOLEAN :
         IF ok THEN pc' = "acquire" /\ exc' = exc /\ fatal' = fatal
               ELSE pc' = "done" /\ exc' = "Fault" /\ fatal' = "connect"
    /\ UNCHANGED <<argsV, flagsV, now, leaseV, uploadV, robotV, runV, repeatV, callV, countV>>

Acquire ==
    /\ pc = "acquire"
    /\ \E granted \in BOOLEAN :
         IF granted
           THEN /\ body_lease' = 0
                /\ walletRev' = 0
                /\ prevOp' = "acquire"
                /\ pc' = "ic_isfile"
                /\ exc' = exc /\ fatal' = fatal
           ELSE /\ UNCHANGED <<body_lease, walletRev, prevOp>>
                /\ pc' = "done"
                /\ exc' = "Exception"
                /\ fatal' = "lease_denied"
    /\ UNCHANGED <<argsV, flagsV, now, nReturn, uploadV, robotV, runV, repeatV,
                   lastCall, calls, lastMissionLease, countV>>

-----------------------------------------------------------------------------
(* init_clients, upload_graph_and_snapshots, upload_mission *)

\* (mutant) the mission file is not checked before the uploads
MissionFileFound_Unchecked(exists) == TRUE

\* init_clients lines 146-148: os.path.isfile(mission_file)
MissionFileFound(exists) == exists

IC_CheckMission ==
    /\ pc = "ic_isfile"
    /\ IF MissionFileFound(mission_exists)
           THEN /\ pc' = IF do_map_load THEN "ic_isdir" ELSE "um_load"
                /\ exc' = exc /\ fatal' = fatal
           ELSE Raise("SystemExit", "mission_missing")
    /\ UNCHANGED <<argsV, flagsV, now, leaseV, uploadV, robotV, runV, repeatV, callV, countV>>

\* (mutant) the map files are read without clearing the remote graph first
AfterCheckMapDir_NoClear == "ug_graph"

\* init_clients lines 156-166: the graph is cleared first, then the map is read
AfterCheckMapDir == "ic_clear"

\* init_clients lines 152-154: os.path.isdir(map_directory)
IC_CheckMapDir ==
    /\ pc = "ic_isdir"
    /\ \E exists \in BOOLEAN :
         IF exists THEN pc' = AfterCheckMapDir /\ exc' = exc /\ fatal' = fatal
                   ELSE Raise("SystemExit", "mapdir_missing")
    /\ UNCHANGED <<argsV, flagsV, now, leaseV, uploadV, robotV, runV, repeatV, callV, countV>>

\* init_clients line 163: graph_nav_client.clear_graph()
IC_ClearGraph ==
    /\ pc = "ic_clear"
    /\ Issue("clear_graph", NoLease)
    /\ \E ok \in BOOLEAN :
         IF ok THEN pc' = "ug_graph" /\ exc' = exc /\ fatal' = fatal
               ELSE Raise("Fault", "fault")
    /\ UNCHANGED <<argsV, flagsV, now, leaseV, uploadV, robotV, runV, repeatV, countV>>

\* lines 199-207: open and parse the graph file
UG_LoadGraph ==
    /\ pc = "ug_graph"
    /\ \E exists \in BOOLEAN, nw \in 0..MaxWaypoints, ne \in 0..MaxEdges :
         IF exists
           THEN /\ n_wp' = nw /\ n_edge' = ne
                /\ pc' = "ug_wp" /\ exc' = exc /\ fatal' = fatal
           ELSE /\ UNCHANGED <<n_wp, n_edge>>
                /\ Raise("FileNotFound", "graph_missing")
    /\ UNCHANGED <<argsV, flagsV, now, leaseV, wp_i, edge_i, robotV, runV, repeatV,
                   callV, countV>>

\* lines 210-219: open every waypoint snapshot file; missing = index of the first
\* file that does not exist (0: all exist)
UG_LoadWaypointSnapshots ==
    /\ pc = "ug_wp"
    /\ \E missing \in 0..n_wp :
         IF missing = 0 THEN pc' = "ug_edge" /\ exc' = exc /\ fatal' = fatal
                        ELSE Raise("FileNotFound", "wp_missing")
    /\ UNCHANGED <<argsV, flagsV, now, leaseV, uploadV, robotV, runV, repeatV, callV, countV>>

\* lines 222-231: open every edge snapshot file
UG_LoadEdgeSnapshots ==
    /\ pc = "ug_edge"
    /\ \E missing \in 0..n_edge :
         IF missing = 0 THEN pc' = "ug_upload_graph" /\ exc' = exc /\ fatal' = fatal
                        ELSE Raise("FileNotFound", "edge_missing")
    /\ UNCHANGED <<argsV, flagsV, now, leaseV, uploadV, robotV, runV, repeatV, callV, countV>>

\* (mutant) the edge snapshots are uploaded before the waypoint snapshots
UploadNext_EdgesFirst(i, j) ==
    IF j < n_edge THEN "ug_upload_edge"
    ELSE IF i < n_wp THEN "ug_upload_wp"
    ELSE "um_load"

\* where the upload goes on with i waypoint and j edge snapshots uploaded
UploadNext(i, j) ==
    IF i < n_wp THEN "ug_upload_wp"
    ELSE IF j < n_edge THEN "ug_upload_edge"
    ELSE "um_load"

\* (mutant) the upload is sent without the lease
UploadLease_None(acquired, wallet) == NoLease

\* the lease an upload presents: the lease main acquired (lease.lease_proto / lease)
UploadLease(acquired, wallet) == acquired

\* line 235: client.upload_graph(graph=current_graph, lease=lease)
UG_UploadGraph ==
    /\ pc = "ug_upload_graph"
    /\ Issue("upload_graph", UploadLease(body_lease, walletRev))
    /\ \E ok \in BOOLEAN :
         IF ok THEN pc' = UploadNext(0, 0) /\ exc' = exc /\ fatal' = fatal
               ELSE Raise("Fault", "fault")
    /\ UNCHANGED <<argsV, flagsV, now, leaseV, uploadV, robotV, runV, repeatV, countV>>

\* lines 239-241: client.upload_waypoint_snapshot(..., lease=lease)
UG_UploadWaypointSnapshot ==
    /\ pc = "ug_upload_wp"
    /\ wp_i < n_wp
    /\ Issue("upload_waypoint_snapshot", UploadLease(body_lease, walletRev))
    /\ \E ok \in BOOLEAN :
         IF ok THEN /\ wp_i' = wp_i + 1
                    /\ pc' = UploadNext(wp_i + 1, edge_i) /\ exc' = exc /\ fatal' = fatal
               ELSE /\ wp_i' = wp_i
                    /\ Raise("Fault", "fault")
    /\ UNCHANGED <<argsV, flagsV, now, leaseV, n_wp, n_edge, edge_i, robotV, runV,
                   repeatV, countV>>

\* lines 243-245: client.upload_edge_snapshot(..., lease=lease)
UG_UploadEdgeSnapshot ==
    /\ pc = "ug_upload_edge"
    /\ edge_i < n_edge
    /\ Issue("upload_edge_snapshot", UploadLease(body_lease, walletRev))
    /\ \E ok \in BOOLEAN :
         IF ok THEN /\ edge_i' = edge_i + 1
                    /\ pc' = UploadNext(wp_i, edge_i + 1) /\ exc' = exc /\ fatal' = fatal
               ELSE /\ edge_i' = edge_i
                    /\ Raise("Fault", "fault")
    /\ UNCHANGED <<argsV, flagsV, now, leaseV, n_wp, n_edge, wp_i, robotV, runV,
                   repeatV, countV>>

\* upload_mission lines 254-261: read the mission file, client.load_mission(proto,
\* leases=[lease]); the locals of upload_graph_and_snapshots are gone by now
UM_LoadMission ==
    /\ pc = "um_load"
    /\ n_wp' = 0 /\ n_edge' = 0 /\ wp_i' = 0 /\ edge_i' = 0
    /\ IF ~mission_exists
         THEN /\ Raise("FileNotFound", "mission_missing")   \* line 254: open(filename)
              /\ UNCHANGED callV
         ELSE /\ Issue("load_mission", UploadLease(body_lease, walletRev))
              /\ \E ok \in BOOLEAN :
                   IF ok THEN pc' = "verify_estop" /\ exc' = exc /\ fatal' = fatal
                         ELSE Raise("Fault", "fault")
    /\ UNCHANGED <<argsV, flagsV, now, leaseV, robotV, runV, repeatV, countV>>

-----------------------------------------------------------------------------
(* verify_estop, ensure_power_on, stand *)

\* lines 369-374: client.get_status().stop_level
VerifyEstop ==
    /\ pc = "verify_estop"
    /\ Issue("estop_get_status", NoLease)
    /\ \E r \in {"none", "estopped", "fault"} :
         CASE r = "none" -> pc' = "on_check" /\ exc' = exc /\ fatal' = fatal
           [] r = "estopped" -> Raise("EstopException", "estop")
           [] OTHER -> Raise("Fault", "fault")
    /\ UNCHANGED <<argsV, flagsV, now, leaseV, uploadV, robotV, runV, repeatV, countV>>

\* (mutant) power_on is called whether or not the robot is already on
PowerOnNeeded_Always(isOn) == TRUE

\* ensure_power_on lines 354-355: already on => return True with no power_on call
PowerOnNeeded(isOn) == ~isOn

EPOn_Check ==
    /\ pc = "on_check"
    /\ Issue("is_powered_on", NoLease)
    /\ \E ok \in BOOLEAN :
         IF ok THEN /\ pc' = IF PowerOnNeeded(powered) THEN "on_power_on" ELSE "stand"
                    /\ exc' = exc /\ fatal' = fatal
               ELSE Raise("Fault", "fault")
    /\ UNCHANGED <<argsV, flagsV, now, leaseV, uploadV, robotV, runV, repeatV, countV>>

\* line 358: robot.power_on(timeout_sec=20); the robot comes up or does not
EPOn_PowerOn ==
    /\ pc = "on_power_on"
    /\ Issue("power_on", NoLease)
    /\ \E ok \in BOOLEAN, up \in BOOLEAN :
         /\ powered' = up
         /\ IF ok THEN pc' = "on_verify" /\ exc' = exc /\ fatal' = fatal
                  ELSE Raise("Fault", "fault")
    /\ UNCHANGED <<argsV, flagsV, now, leaseV, uploadV, power_off_success, runV,
                   repeatV, countV>>

\* (mutant) the assert of line 98 is not evaluated
AssertPowerOn_Skipped(result) == TRUE

\* main line 98: assert ensure_power_on(robot)
AssertPowerOn(result) == result

\* lines 360-365 and the assert of main line 98
EPOn_Verify ==
    /\ pc = "on_verify"
    /\ Issue("is_powered_on", NoLease)
    /\ \E ok \in BOOLEAN :
         IF ~ok THEN Raise("Fault", "fault")
         ELSE IF AssertPowerOn(powered) THEN pc' = "stand" /\ exc' = exc /\ fatal' = fatal
         ELSE Raise("AssertionError", "power_on_failed")
    /\ UNCHANGED <<argsV, flagsV, now, leaseV, uploadV, robotV, runV, repeatV, countV>>

\* (mutant) --static is not looked at
AfterStand_IgnoresStatic == IF duration = 0 THEN "rm_enter" ELSE "rp_start"

\* what main does after standing (lines 108-113)
AfterStand == IF static_mode THEN "off_check"
              ELSE IF duration = 0 THEN "rm_enter"
              ELSE "rp_start"

\* lines 101-105: command_client.robot_command(stand_command); countdown(5).
\* The command is given no lease argument and the wallet is not advanced.
Stand ==
    /\ pc = "stand"
    /\ Issue("stand", NoLease)
    /\ \E ok \in BOOLEAN :
         IF ok THEN /\ now' = now + StandCountdown
                    /\ pc' = AfterStand /\ exc' = exc /\ fatal' = fatal
               ELSE /\ now' = now
                    /\ Raise("Fault", "fault")
    /\ UNCHANGED <<argsV, flagsV, leaseV, uploadV, robotV, runV, repeatV, countV>>

-----------------------------------------------------------------------------
(* run_mission *)

\* (mutant) the loop also goes on while the mission is paused
LoopContinues_WhilePaused(status) == status \in Active \cup {"PAUSED"}

\* line 272: the while condition
LoopContinues(status) == status \in Active

\* (mutant) pending questions never end the run
QuestionAbort_Never(questions, failOnQuestion) == FALSE

\* line 276: if mission_state.questions and fail_on_question
QuestionAbort(questions, failOnQuestion) == questions > 0 /\ failOnQuestion

\* (mutant) only SUCCESS counts as success
RunResult_SuccessOnly(status) == status = "SUCCESS"

\* lines 288-289: the value returned after the loop
RunResult(status) == status \in {"SUCCESS", "PAUSED"}

\* lease_client.lease_wallet.advance(): the next revision
Advance(rev) == rev + 1

\* (mutant) play / restart present the lease main acquired, not the advanced one
MissionLease_Stale(advanced, acquired) == acquired

\* the lease a play / restart call presents: the one advance() just returned
MissionLease(advanced, acquired) == advanced

\* line 268: run_mission is entered; it has polled nothing yet
RM_Enter ==
    /\ pc = "rm_enter"
    /\ mission_state' = NoState
    /\ nRuns' = nRuns + 1
    /\ rm_plays' = 0
    /\ rs_result' = FALSE                   \* the value restart_mission returned is dropped
    /\ pc' = "rm_poll"
    /\ UNCHANGED <<argsV, flagsV, exc, fatal, now, leaseV, uploadV, robotV, rm_lease, rm_result,
                   rm_caller, repeatV, callV, nPlays, nRestarts, nGetState,
                   nRunsReturned, everyIter4>>

\* lines 270 and 286: mission_state = mission_client.get_state()
RM_GetState ==
    /\ pc = "rm_poll"
    /\ Issue("get_state", NoLease)
    /\ nGetState' = nGetState + 1
    /\ \/ \E s \in Statuses, q \in 0..MaxQuestions :
            /\ mission_state' = [status |-> s, questions |-> q]
            /\ rm_lease' = rm_lease
            /\ pc' = "rm_while" /\ exc' = exc /\ fatal' = fatal
       \/ /\ mission_state' = NoState /\ rm_lease' = NoLease
          /\ Raise("Fault", "fault")
    /\ UNCHANGED <<argsV, flagsV, now, leaseV, uploadV, robotV, rm_result, rm_caller,
                   repeatV, nPlays, nRestarts, nRuns, nRunsReturned, everyIter4,
                   rm_plays, rs_result>>

\* lines 272-278 and 288-289: loop test, question check, return
RM_While ==
    /\ pc = "rm_while"
    /\ IF LoopContinues(mission_state.status)
         THEN IF QuestionAbort(mission_state.questions, fail_on_question)
                THEN /\ rm_result' = FALSE
                     /\ nRunsReturned' = nRunsReturned + 1
                     /\ pc' = "rm_return"
                ELSE /\ UNCHANGED <<rm_result, nRunsReturned>>
                     /\ pc' = "rm_advance"
         ELSE /\ rm_result' = RunResult(mission_state.status)
              /\ nRunsReturned' = nRunsReturned + 1
              /\ pc' = "rm_return"
    /\ UNCHANGED <<argsV, flagsV, exc, fatal, now, leaseV, uploadV, robotV, mission_state,
                   rm_lease, rm_caller, repeatV, callV, nPlays, nRestarts, nGetState,
                   nRuns, everyIter4, rm_plays, rs_result>>

\* line 280: body_lease = lease_client.lease_wallet.advance()
RM_Advance ==
    /\ pc = "rm_advance"
    /\ walletRev < MaxRev
    /\ walletRev' = Advance(walletRev)
    /\ rm_lease' = Advance(walletRev)
    /\ prevOp' = "advance"
    /\ pc' = "rm_play"
    /\ UNCHANGED <<argsV, flagsV, exc, fatal, now, body_lease, nReturn, uploadV, robotV,
                   mission_state, rm_result, rm_caller, repeatV, lastCall, calls,
                   lastMissionLease, countV>>

\* lines 281-284: mission_client.play_mission(local_pause_time, [body_lease]); sleep(1)
RM_Play ==
    /\ pc = "rm_play"
    /\ Issue("play_mission", MissionLease(rm_lease, body_lease))
    /\ nPlays' = nPlays + 1
    /\ rm_plays' = rm_plays + 1
    /\ \E ok \in BOOLEAN :
         IF ok THEN /\ now' = now + PollSleep
                    /\ UNCHANGED <<mission_state, rm_lease>>
                    /\ pc' = "rm_poll" /\ exc' = exc /\ fatal' = fatal
               ELSE /\ now' = now
                    /\ mission_state' = NoState /\ rm_lease' = NoLease
                    /\ Raise("Fault", "fault")
    /\ UNCHANGED <<argsV, flagsV, leaseV, uploadV, robotV, rm_result, rm_caller, repeatV,
                   nRestarts, nGetState, nRuns, nRunsReturned, everyIter4, rs_result>>

\* main line 110: the result of run_mission is dropped, the with block ends
Main_AfterRun ==
    /\ pc = "rm_return"
    /\ rm_caller = "main"
    /\ mission_state' = NoState /\ rm_lease' = NoLease /\ rm_plays' = 0
    /\ pc' = "off_check"
    /\ UNCHANGED <<argsV, flagsV, exc, fatal, now, leaseV, uploadV, robotV, rm_result,
                   rm_caller, repeatV, callV, nPlays, nRestarts, nGetState, nRuns,
                   nRunsReturned, everyIter4, rs_result>>

-----------------------------------------------------------------------------
(* restart_mission, repeat_mission *)

\* (mutant) the break of line 332 is missing: a failed run does not end the loop
RepeatAgain_NoBreak(success, elapsed, total) == elapsed < total

\* (mutant) the loop condition is elapsed_time <= total_time
RepeatAgain_Inclusive(success, elapsed, total) == success /\ elapsed <= total

\* lines 322 and 330-332: the loop goes on iff the last run succeeded and time is left
RepeatAgain(success, elapsed, total) == success /\ elapsed < total

\* lines 309-313
RP_Start ==
    /\ pc = "rp_start"
    /\ start_time' = now
    /\ rm_caller' = "first"
    /\ pc' = "rm_enter"
    /\ UNCHANGED <<argsV, flagsV, exc, fatal, now, leaseV, uploadV, robotV, mission_state,
                   rm_lease, rm_result, elapsed_time, mission_success, rp_returned,
                   rp_result, callV, countV>>

\* what follows a run of repeat_mission: lines 313-322 (first run), 324-334 (later runs)
RP_AfterRun(caller) ==
    /\ pc = "rm_return"
    /\ rm_caller = caller
    /\ mission_success' = rm_result
    /\ elapsed_time' = now - start_time
    /\ everyIter4' = (everyIter4 /\ rm_result /\ (now - start_time) - elapsed_time = 4)
    /\ IF RepeatAgain(rm_result, now - start_time, duration)
         THEN /\ pc' = "rs_advance"
              /\ UNCHANGED <<rp_returned, rp_result>>
         ELSE /\ rp_returned' = TRUE
              /\ rp_result' = rm_result
              /\ pc' = "off_check"
    /\ mission_state' = NoState /\ rm_lease' = NoLease /\ rm_plays' = 0
    /\ UNCHANGED <<argsV, flagsV, exc, fatal, now, leaseV, uploadV, robotV, rm_result,
                   rm_caller, start_time, callV, nPlays, nRestarts, nGetState, nRuns,
                   nRunsReturned, rs_result>>

RP_AfterFirstRun == RP_AfterRun("first")

RP_AfterLoopRun == RP_AfterRun("loop")

\* line 297: body_lease = lease_client.lease_wallet.advance()
RS_Advance ==
    /\ pc = "rs_advance"
    /\ walletRev < MaxRev
    /\ walletRev' = Advance(walletRev)
    /\ rm_lease' = Advance(walletRev)
    /\ prevOp' = "advance"
    /\ pc' = "rs_restart"
    /\ UNCHANGED <<argsV, flagsV, exc, fatal, now, body_lease, nReturn, uploadV, robotV,
                   mission_state, rm_result, rm_caller, repeatV, lastCall, calls,
                   lastMissionLease, countV>>

\* (mutant) a restart that does not report success ends the repeat
AfterRestart_CheckResult(restarted) == IF restarted THEN "rm_enter" ELSE "off_check"

\* lines 323-324: whatever restart_mission returned, run_mission is called next
AfterRestart(restarted) == "rm_enter"

\* lines 298-303 and 323-324: restart_mission(...); sleep(1); the value restart_mission
\* returns is not used by repeat_mission
RS_Restart ==
    /\ pc = "rs_restart"
    /\ Issue("restart_mission", MissionLease(rm_lease, body_lease))
    /\ nRestarts' = nRestarts + 1
    /\ \/ \E restarted \in BOOLEAN :        \* line 303: status == STATUS_SUCCESS
            /\ rs_result' = restarted
            /\ now' = now + PollSleep
            /\ rm_caller' = "loop"
            /\ pc' = AfterRestart(restarted) /\ exc' = exc /\ fatal' = fatal
       \/ /\ UNCHANGED <<rs_result, now, rm_caller>>
          /\ Raise("Fault", "fault")
    /\ rm_lease' = NoLease                  \* restart_mission's frame is gone
    /\ UNCHANGED <<argsV, flagsV, leaseV, uploadV, robotV, mission_state,
                   rm_result, repeatV, nPlays, nGetState, nRuns, nRunsReturned,
                   everyIter4, rm_plays>>

-----------------------------------------------------------------------------
(* finally clause of main: ensure_power_off, return_lease *)

\* line 340: if robot.is_powered_on(): power_off
PowerOffNeeded(isOn) == isOn

\* (mutant) the lease is returned only after a successful power-off
AfterPowerOff_OnlyOnSuccess(success) == IF success THEN "return_lease" ELSE "done"

\* main lines 117-121: whatever ensure_power_off returned, the lease is returned next
AfterPowerOff(success) == "return_lease"

EPOff_Check ==
    /\ pc = "off_check"
    /\ Issue("is_powered_on", NoLease)
    /\ \E ok \in BOOLEAN :
         IF ok THEN /\ pc' = IF PowerOffNeeded(powered) THEN "off_power_off" ELSE "off_verify"
                    /\ exc' = exc /\ fatal' = fatal
               ELSE /\ pc' = "done"         \* the fault leaves the finally clause
                    /\ exc' = "Fault" /\ fatal' = fatal
    /\ UNCHANGED <<argsV, flagsV, now, leaseV, uploadV, robotV, runV, repeatV, countV>>

\* line 341: robot.power_off(cut_immediately=False, timeout_sec=20)
EPOff_PowerOff ==
    /\ pc = "off_power_off"
    /\ Issue("power_off", NoLease)
    /\ \E ok \in BOOLEAN, stillOn \in BOOLEAN :
         /\ powered' = stillOn
         /\ IF ok THEN pc' = "off_verify" /\ exc' = exc /\ fatal' = fatal
                  ELSE pc' = "done" /\ exc' = "Fault" /\ fatal' = fatal
    /\ UNCHANGED <<argsV, flagsV, now, leaseV, uploadV, power_off_success, runV,
                   repeatV, countV>>

\* lines 343-348: the second is_powered_on decides the value returned
EPOff_Verify ==
    /\ pc = "off_verify"
    /\ Issue("is_powered_on", NoLease)
    /\ \E ok \in BOOLEAN :
         IF ok THEN /\ power_off_success' = IF powered THEN "false" ELSE "true"
                    /\ pc' = AfterPowerOff(~powered) /\ exc' = exc /\ fatal' = fatal
               ELSE /\ power_off_success' = power_off_success
                    /\ pc' = "done" /\ exc' = "Fault" /\ fatal' = fatal
    /\ UNCHANGED <<argsV, flagsV, now, leaseV, uploadV, powered, runV, repeatV, countV>>

\* line 121: lease_client.return_lease(body_lease); then the exception in flight, if
\* any, ends the process
ReturnLease ==
    /\ pc = "return_lease"
    /\ Issue("return_lease", body_lease)
    /\ nReturn' = nReturn + 1
    /\ \E ok \in BOOLEAN : exc' = IF ok THEN exc ELSE "Fault"
    /\ fatal' = fatal
    /\ pc' = "done"
    /\ UNCHANGED <<argsV, flagsV, now, body_lease, walletRev, uploadV, robotV, runV,
                   repeatV, countV>>

-----------------------------------------------------------------------------
Next ==
    \/ ParseArgs \/ InitRobot \/ Acquire
    \/ IC_CheckMission \/ IC_CheckMapDir \/ IC_ClearGraph
    \/ UG_LoadGraph \/ UG_LoadWaypointSnapshots \/ UG_LoadEdgeSnapshots
    \/ UG_UploadGraph \/ UG_UploadWaypointSnapshot \/ UG_UploadEdgeSnapshot
    \/ UM_LoadMission
    \/ VerifyEstop \/ EPOn_Check \/ EPOn_PowerOn \/ EPOn_Verify \/ Stand
    \/ RM_Enter \/ RM_GetState \/ RM_While \/ RM_Advance \/ RM_Play \/ Main_AfterRun
    \/ RP_Start \/ RP_AfterFirstRun \/ RP_AfterLoopRun \/ RS_Advance \/ RS_Restart
    \/ EPOff_Check \/ EPOff_PowerOff \/ EPOff_Verify \/ ReturnLease

Spec == Init /\ [][Next]_vars

\* The script is one thread that keeps running: every enabled step is eventually taken.
FairSpec == Init /\ [][Next]_vars /\ WF_vars(Next)

-----------------------------------------------------------------------------
(* Properties *)

Acquired == body_lease # NoLease

\* C1: in every run in which the lease was acquired, return_lease has been invoked
\* exactly once when the process has ended, whichever later step failed or raised
\* (this includes a fault raised by a power-state call made during power-off).
C1_LeaseReturnedExactlyOnce ==
    (pc = "done" /\ Acquired) => nReturn = 1

\* C2: the lease is returned only after ensure_power_off has run to its end, and when
\* ensure_power_off returned false (robot still powered on) the lease is returned all
\* the same.
C2_PowerOffBeforeLeaseReturn ==
    /\ (pc = "return_lease" \/ nReturn > 0) => power_off_success # "unset"
    /\ power_off_success = "false" => pc \in {"return_lease", "done"}
    /\ (pc = "done" /\ power_off_success = "false") => nReturn = 1

C2_Witness ==
    pc = "done" /\ power_off_success = "false" /\ nReturn = 1 /\ "power_off" \in calls

\* C3 (as claimed): every upload-graph, upload-waypoint-snapshot, upload-edge-snapshot,
\* load-mission, stand, play-mission and restart-mission call is immediately preceded
\* by its own lease advance and carries the revision that advance produced.
C3_AdvanceBeforeEveryMutatingCall ==
    lastCall.kind \in MutatingKinds =>
        (lastCall.fresh /\ lastCall.lease = lastCall.wallet)

\* C3 (amended): every play-mission and restart-mission call is immediately preceded
\* by its own lease advance and carries the revision that advance produced; the
\* upload-graph, snapshot-upload and load-mission calls carry the lease as it was
\* acquired, with no advance of their own, and the stand command is issued with no
\* advance and no lease argument.
C3_AdvanceBeforeMissionCalls ==
    /\ lastCall.kind \in MissionKinds =>
          (lastCall.fresh /\ lastCall.lease = lastCall.wallet /\ lastCall.lease > body_lease)
    /\ lastCall.kind \in UploadKinds =>
          (~lastCall.fresh /\ lastCall.lease = body_lease)
    /\ lastCall.kind = "stand" =>
          (~lastCall.fresh /\ lastCall.lease = NoLease)

C3_Witness ==
    /\ lastCall.kind = "restart_mission"
    /\ lastCall.fresh
    /\ {"upload_graph", "load_mission", "stand", "play_mission"} \subseteq calls

C5_RunResultIffSuccessOrPaused ==
    pc = "rm_return" =>
        /\ rm_result = (mission_state.status \in {"SUCCESS", "PAUSED"})
        /\ mission_state.status \in {"FAILURE", "ERROR"} => ~rm_result
        /\ mission_state.status \in Active =>
              (~rm_result /\ fail_on_question /\ mission_state.questions > 0)
        /\ mission_state.status # Unset

C5_Witness ==
    pc = "rm_return" /\ mission_state.status = "PAUSED" /\ rm_result /\ nPlays > 0

\* a poll of run_mission has just observed a status outside {NONE, RUNNING}
ObservedTerminal == pc = "rm_while" /\ mission_state.status \notin Active

\* C6: once a poll of run_mission observes a status outside {NONE, RUNNING},
\* run_mission returns (under FairSpec), and it returns at that very poll: its next
\* step is the return, with no further get-state or play-mission call; so the loop is
\* only ever inside an iteration with a status in {NONE, RUNNING}, and a single run
\* that returns has polled once more than it has played (unless a question ended it).
C6_TerminatesAtFirstTerminalPoll ==
    /\ ObservedTerminal ~> (pc = "rm_return")
    /\ [][ObservedTerminal =>
            (pc' = "rm_return" /\ nGetState' = nGetState /\ nPlays' = nPlays)]_vars
    /\ [](pc \in {"rm_advance", "rm_play"} => mission_state.status \in Active)
    /\ []((pc = "rm_return" /\ rm_caller = "main") =>
            /\ nGetState = nPlays + 1
            /\ nRunsReturned = 1)

C6_Witness ==
    /\ pc = "rm_return"
    /\ mission_state.status \in {"SUCCESS", "FAILURE"}
    /\ rm_caller = "main"
    /\ nPlays >= 2

\* C7: with fail_on_question set, whenever the poll that ends run_mission reports at
\* least one pending operator question, run_mission returns false.
C7_QuestionAlwaysAborts ==
    (pc = "rm_return" /\ fail_on_question /\ mission_state.questions > 0) => ~rm_result

\* in repeat_mission, the run that returned last returned false
RunFailed ==
    /\ rm_caller \in {"first", "loop"}
    /\ nRunsReturned > 0
    /\ nRunsReturned = nRuns
    /\ ~rm_result

\* C8: in repeat_mission, once a run has returned false no restart-mission or
\* play-mission call is issued any more and repeat_mission returns false; if it is
\* the first run that failed, no restart was ever issued.
C8_NoRestartAfterFailedRun ==
    /\ [][RunFailed => (nPlays' = nPlays /\ nRestarts' = nRestarts /\ nRuns' = nRuns)]_vars
    /\ []((RunFailed /\ pc # "rm_return") => (rp_returned /\ ~rp_result))
    /\ []((RunFailed /\ nRuns = 1) => nRestarts = 0)
    /\ []((rp_returned /\ nRestarts = 0 /\ elapsed_time < duration) => ~rp_result)

C8_Witness ==
    rp_returned /\ ~rp_result /\ nRestarts >= 1 /\ nRuns = nRestarts + 1

\* C9: in repeat_mission with total_time = duration, a restart is issued exactly when
\* the previous run succeeded and the elapsed time is below duration; each restart is
\* followed by one run; when repeat_mission returns true the elapsed time is at least
\* duration; with duration 10 and every iteration taking 4 s and succeeding there are
\* exactly 3 runs and the result is true.
C9_RepeatUntilDuration ==
    /\ pc \in {"rs_advance", "rs_restart"} =>
          (mission_success /\ elapsed_time < duration /\ nRuns = nRestarts + 1)
    /\ rp_returned =>
          /\ ~(mission_success /\ elapsed_time < duration)
          /\ nRuns = nRestarts + 1
          /\ nRunsReturned = nRuns
          /\ rp_result = mission_success
    /\ rm_caller \in {"first", "loop"} => nRuns \in {nRestarts, nRestarts + 1}
    /\ (rp_returned /\ rp_result) => elapsed_time >= duration
    /\ (rp_returned /\ duration = 10 /\ everyIter4) => (nRuns = 3 /\ rp_result)

C9_Witness ==
    rp_returned /\ duration = 10 /\ everyIter4 /\ nRuns = 3 /\ rp_result /\ elapsed_time = 12

\* C10: when --map_directory is omitted, no clear-localization, upload-graph,
\* upload-waypoint-snapshot or upload-edge-snapshot call is ever issued, and pending
\* questions never end run_mission: from a poll with status NONE or RUNNING it goes
\* on to play, and it returns only with a status outside {NONE, RUNNING}.
C10_NoMapNoUploadNoQuestionAbort ==
    /\ [](~map_given =>
            calls \cap {"clear_graph", "upload_graph", "upload_waypoint_snapshot",
                        "upload_edge_snapshot"} = {})
    /\ []((~map_given /\ pc = "rm_return") => mission_state.status \notin Active)
    /\ [][(~map_given /\ pc = "rm_while" /\ mission_state.status \in Active) =>
            pc' = "rm_advance"]_vars

C10_Witness ==
    /\ ~map_given
    /\ lastCall.kind = "play_mission"
    /\ mission_state.questions > 0
    /\ pc = "rm_poll"

\* reasons for which an input file is found missing
MissingKinds == {"mission_missing", "mapdir_missing", "graph_missing", "wp_missing",
                 "edge_missing"}

MapKinds == {"clear_graph", "upload_graph", "upload_waypoint_snapshot",
             "upload_edge_snapshot"}

\* C11: when the mission file does not exist, the run ends fatally after the lease was
\* acquired, with no clear-localization, upload, load-mission, estop check, power-on,
\* stand or play-mission call, and the Release phase still executes: the power-off
\* attempt, then the lease return.
C11_MissionMissingStillReleases ==
    fatal = "mission_missing" =>
        /\ Acquired
        /\ calls \cap (MapKinds \cup {"load_mission", "estop_get_status", "power_on",
                                     "stand", "play_mission"}) = {}
        /\ pc = "done" => (power_off_success # "unset" /\ nReturn = 1)

\* C12: every missing input file (mission file, map directory, graph file, waypoint
\* snapshot file, edge snapshot file) is detected, and the run then ends with an
\* exception, before any upload-graph, upload-waypoint-snapshot, upload-edge-snapshot
\* or load-mission call is issued.
C12_MissingFileBeforeAnyUpload ==
    /\ fatal \in MissingKinds => (calls \cap UploadKinds = {} /\ exc # "none")
    /\ (~mission_exists /\ Acquired /\ pc # "ic_isfile") => fatal = "mission_missing"
    /\ "load_mission" \in calls => mission_exists

C12_Witness ==
    fatal = "edge_missing" /\ pc = "done" /\ "clear_graph" \in calls

\* C13: stand, play-mission and restart-mission are only issued after the estop check
\* reported no estop and the robot was seen powered on; with the estop engaged no
\* power-on call is issued; with the robot not powered on after the power-on wait the
\* run aborts before standing.
C13_NoMotionUnlessEstopClearAndPowered ==
    /\ pc \in {"on_check", "on_power_on", "on_verify", "stand"} =>
          (fatal = "none" /\ "estop_get_status" \in calls)
    /\ pc = "stand" => (powered /\ "is_powered_on" \in calls)
    /\ calls \cap {"stand", "play_mission", "restart_mission"} # {} =>
          /\ {"estop_get_status", "is_powered_on"} \subseteq calls
          /\ fatal \notin {"estop", "power_on_failed"}
          /\ "power_off" \notin calls => powered
    /\ fatal = "estop" =>
          calls \cap {"power_on", "stand", "play_mission", "restart_mission"} = {}
    /\ fatal = "power_on_failed" =>
          /\ "power_on" \in calls
          /\ calls \cap {"stand", "play_mission", "restart_mission"} = {}

C13_Witness ==
    lastCall.kind = "play_mission" /\ "power_on" \in calls /\ powered

\* C14: ensure_power_on issues a power-on call iff the robot does not report
\* powered-on at entry; already on, it returns true at once with no power-on call;
\* otherwise it returns true exactly when the robot reports powered-on after the call
\* (returning true is passing the assert of main, i.e. going on to stand).
C14_PowerOnIffNotPowered ==
    /\ [][(pc = "on_check" /\ fatal' = fatal) =>
            IF powered THEN pc' = "stand" /\ "power_on" \notin calls'
                       ELSE pc' = "on_power_on"]_vars
    /\ [][("power_on" \in calls' /\ "power_on" \notin calls) =>
            (pc = "on_power_on" /\ ~powered)]_vars
    /\ [][(pc = "on_verify" /\ fatal' # "fault") =>
            /\ (pc' = "stand") = powered
            /\ ~powered => fatal' = "power_on_failed"]_vars

C14_Witness ==
    /\ pc = "stand"
    /\ "power_on" \notin calls
    /\ lastCall.kind = "is_powered_on"
    /\ powered

\* C15: with a map directory, the upload calls come in the order clear-localization,
\* upload-graph, waypoint snapshots, edge snapshots, load-mission: no snapshot upload
\* before the graph upload, no edge-snapshot upload before the waypoint snapshots are
\* all uploaded, and load-mission only once every snapshot of the graph is uploaded.
C15_UploadOrder ==
    /\ lastCall.kind = "upload_graph" =>
          /\ "clear_graph" \in calls
          /\ calls \cap {"upload_waypoint_snapshot", "upload_edge_snapshot",
                         "load_mission"} = {}
    /\ lastCall.kind = "upload_waypoint_snapshot" =>
          /\ {"clear_graph", "upload_graph"} \subseteq calls
          /\ calls \cap {"upload_edge_snapshot", "load_mission"} = {}
    /\ lastCall.kind = "upload_edge_snapshot" =>
          /\ {"clear_graph", "upload_graph"} \subseteq calls
          /\ "load_mission" \notin calls
          /\ wp_i = n_wp
          /\ n_wp > 0 => "upload_waypoint_snapshot" \in calls
    /\ (do_map_load /\ pc = "um_load") =>
          /\ {"clear_graph", "upload_graph"} \subseteq calls
          /\ wp_i = n_wp /\ edge_i = n_edge
    /\ (do_map_load /\ "load_mission" \in calls) =>
          {"clear_graph", "upload_graph"} \subseteq calls

C15_Witness ==
    /\ pc = "verify_estop"
    /\ MapKinds \cup {"load_mission"} \subseteq calls

\* the run met one of the fatal conditions
FatalCondition ==
    \/ fatal \in {"missing_args", "lease_denied", "mission_missing", "mapdir_missing",
                  "estop", "power_on_failed"}
    \/ power_off_success = "false"

\* C16: the process ends with a nonzero exit status (an exception ends it) on every
\* fatal condition: missing mission file or map directory, lease denial, estop,
\* power-on failure, power-off failure, missing arguments.
C16_FatalMeansNonzeroExit ==
    (pc = "done" /\ FatalCondition) => exc # "none"

\* C17: in static mode no get-mission-state, play-mission or restart-mission call is
\* issued; the stand command is followed by the Release phase, and a static run that
\* ends without an exception has uploaded the mission, checked estop and power, stood
\* up, attempted power-off and returned the lease.
C17_StaticNeverRunsMission ==
    /\ [](static_mode =>
            calls \cap {"get_state", "play_mission", "restart_mission"} = {})
    /\ [](static_mode => nRuns = 0)
    /\ [][(static_mode /\ pc = "stand" /\ fatal' = fatal) => pc' = "off_check"]_vars
    /\ []((static_mode /\ pc = "done" /\ exc = "none") =>
            /\ {"load_mission", "estop_get_status", "is_powered_on", "stand",
                "return_lease"} \subseteq calls
            /\ power_off_success # "unset"
            /\ nReturn = 1)

C17_Witness ==
    static_mode /\ pc = "done" /\ exc = "none" /\ nReturn = 1 /\ "stand" \in calls

\* C18: run_mission goes on to one lease advance and one play-mission call from a
\* poll exactly when the poll observes NONE or RUNNING and no question abort applies;
\* so polls, plays and advances stay in step, and a run whose first poll observes a
\* status outside {NONE, RUNNING} returns with no play-mission call of its own.
C18_OnePlayPerActivePoll ==
    /\ [][pc = "rm_while" =>
            ((pc' = "rm_advance") =
               (/\ mission_state.status \in Active
                /\ ~(mission_state.questions > 0 /\ fail_on_question)))]_vars
    /\ [][pc = "rm_advance" => (pc' = "rm_play" /\ walletRev' = walletRev + 1)]_vars
    /\ [](pc \in {"rm_while", "rm_return", "rm_advance"} =>
            (nGetState = nPlays + nRuns /\ walletRev = nPlays + nRestarts))
    /\ [](pc = "rm_play" =>
            (nGetState = nPlays + nRuns /\ walletRev = nPlays + nRestarts + 1))
    /\ [](pc = "rm_poll" => nGetState = nPlays + nRuns - 1)
    /\ [](rm_plays <= nPlays)

C18_Witness ==
    /\ pc = "rm_return"
    /\ rm_caller = "loop"
    /\ rm_plays = 0
    /\ mission_state.status = "SUCCESS"
    /\ nGetState = nPlays + 2

\* C19: in repeat_mission, a restart that returns is followed by run_mission whether
\* it reported success or not, and the value repeat_mission returns is the value the
\* last run_mission returned.
C19_RestartResultIgnored ==
    /\ [][(pc = "rs_restart" /\ fatal' = fatal) => pc' = "rm_enter"]_vars
    /\ []((pc = "rm_enter" /\ rm_caller = "loop") => nRuns = nRestarts)
    /\ [](rp_returned => rp_result = rm_result)

C19_Witness ==
    pc = "rm_enter" /\ rm_caller = "loop" /\ ~rs_result /\ nRestarts = 2

\* C20: with the map directory and the mission file present, clear-localization is
\* issued before the graph file or any snapshot file is read; a run that aborts on a
\* missing graph or snapshot file has cleared the remote graph and uploaded nothing.
C20_ClearedBeforeMapIsRead ==
    /\ pc \in {"ug_graph", "ug_wp", "ug_edge"} =>
          ("clear_graph" \in calls /\ calls \cap UploadKinds = {})
    /\ fatal \in {"graph_missing", "wp_missing", "edge_missing"} =>
          /\ "clear_graph" \in calls
          /\ calls \cap UploadKinds = {}
          /\ mission_exists

C20_Witness ==
    fatal = "graph_missing" /\ "clear_graph" \in calls /\ pc = "done" /\ nReturn = 1

====
